---- MODULE Spec2Model ----
(***************************************************************************)
(* Model of the chat server (server.js) of egordebug/maranuchokk, and of   *)
(* sendMessage of its page (script.js).                                    *)
(*                                                                         *)
(* Every socket.io handler of the server is synchronous (better-sqlite3    *)
(* and bcrypt are used through their blocking APIs, no handler awaits), so *)
(* Node runs each handler to completion before the next event: one action  *)
(* per handler.  The SQLite tables are sets of rows.  Where SQL leaves the *)
(* order of rows open (no ORDER BY, or equal ORDER BY keys) the model      *)
(* takes every order.  The server's Russian texts are given in English.   *)
(***************************************************************************)
EXTENDS FiniteSets, Integers, Sequences, TLC

(* ------------------------------ bounds --------------------------------- *)
\* chats that may be created
MaxChats == 2
\* message rows that may be inserted (user and system messages together)
MaxMsgs == 3
\* last reading of the wall clock
MaxClock == 1

\* server.js:24 sets 2000; scaled down so that a chat can pass the cap
MESSAGE_LIMIT_PER_CHAT == 2

\* live connections (each value is one `io.on('connection')` closure)
Conns == {1, 2}

(* --------------------------- JavaScript values ------------------------- *)
\* a string is the sequence of its characters
Str(s) == [t |-> "string", v |-> s]
JsNull == [t |-> "null", v |-> <<>>]
JsObject == [t |-> "object", v |-> <<>>]

\* JavaScript truthiness: null/undefined and '' are falsy
Truthy(x) == x.t = "object" \/ (x.t = "string" /\ x.v # <<>>)

\* String(x)
String(x) ==
  IF x.t = "string" THEN x.v
  ELSE IF x.t = "object" THEN <<"[object Object]">> ELSE <<"null">>

\* s.slice(0, n)
Slice(s, n) == SubSeq(s, 1, IF Len(s) < n THEN Len(s) ELSE n)

RECURSIVE TrimLeft(_)
TrimLeft(s) == IF s # <<>> /\ Head(s) = " " THEN TrimLeft(Tail(s)) ELSE s

RECURSIVE TrimRight(_)
TrimRight(s) ==
  IF s # <<>> /\ s[Len(s)] = " " THEN TrimRight(SubSeq(s, 1, Len(s) - 1)) ELSE s

\* s.trim()
Trim(s) == TrimRight(TrimLeft(s))

sanitizeUsername(u) ==
  IF ~Truthy(u) \/ u.t # "string" THEN <<>> ELSE Slice(Trim(u.v), 64)

sanitizeText(t) ==
  IF ~Truthy(t) THEN <<>> ELSE Slice(Trim(String(t)), 2000)

\* bcrypt.hashSync / bcrypt.compareSync
hashSync(p) == <<"bcrypt", p>>
\* mutant: every password is accepted
compareSync_always(p, h) == TRUE

compareSync(p, h) == h = hashSync(p)

(* ------------------------------ identifiers ---------------------------- *)
\* uuidv4(): the n-th identifier of a kind; kinds never collide
UserId(n) == <<"user", n>>
ChatId(n) == <<"chat", n>>
MemberId(n) == <<"member", n>>
MessageId(n) == <<"message", n>>
NoId == <<"null", 0>>
SystemId == <<"system", 0>>

NoUser == [id |-> NoId, username |-> <<>>, password |-> <<>>]

(* -------------------------------- inputs ------------------------------- *)
Usernames == {Str(<<"a">>), Str(<<" ", "b", " ">>), Str(<<" ">>), JsNull}
Passwords == {Str(<<"p">>), Str(<<"q">>), JsNull}
\* { text, fileData } of send_message: a text, a blank text, a blank text with the
\* upload record the client attaches, no text with an attachment reference
SendPayloads ==
  {[text |-> Str(<<"h">>), fileData |-> JsNull],
   [text |-> Str(<<" ">>), fileData |-> JsNull],
   [text |-> Str(<<" ">>), fileData |-> JsObject],
   [text |-> JsNull, fileData |-> Str(<<"f">>)]}
Queries == {Str(<<"B">>), Str(<<"_">>), Str(<<" ">>), JsNull}
GroupNames == {Str(<<" ", "T">>), JsNull}

VARIABLES
  users,          \* table users: rows [id, username, password]
  chats,          \* table chats: rows [id, type, name, createdAt]
  chat_members,   \* table chat_members: rows [id, chatId, userId]
  messages,       \* table messages: rows [id, chatId, senderId, senderName, text, file, timestamp]
  msgSeq,         \* message rows inserted so far (the next row's id)
  clock,          \* new Date()
  currentUser,    \* per connection: the closure variable currentUser
  rooms,          \* per connection: the socket.io rooms it has joined
  emitted,        \* the events the last request emitted, in order
  forced,         \* history: open_chat_force events of private create_chat
  sentLog,        \* history: ids of the messages persisted by send_message, per chat
  currentChatId,  \* script.js of one browser: the chat that is open, NoId for null
  sending,        \* script.js: the flag `sending`
  call,           \* script.js: the invocation of sendMessage that is suspended at an await
  clientEmitted,  \* script.js: what the last step of the page emitted on its socket
  inputs          \* script.js: the values of inputs.msg and inputs.file

tables == <<users, chats, chat_members, messages>>
clientVars == <<currentChatId, sending, call, clientEmitted, inputs>>
vars == <<users, chats, chat_members, messages, msgSeq, clock, currentUser,
          rooms, emitted, forced, sentLog, currentChatId, sending, call, clientEmitted,
          inputs>>

(* ------------------------- prepared statements ------------------------- *)
getUserByName(username) == {u \in users : u.username = username}
getUserById(id) == {u \in users : u.id = id}
getChatById(id) == {c \in chats : c.id = id}

\* mutant: the lookup forgets the user
isUserMemberOfChat_anyUser(mem, chatId, userId) ==
  \E m \in mem : m.chatId = chatId

isUserMemberOfChat(mem, chatId, userId) ==
  \E m \in mem : m.chatId = chatId /\ m.userId = userId

\* mutant: both users are looked up through one alias of chat_members
getPrivateChatBetween_oneAlias(a, b) ==
  {c \in chats : /\ c.type = "private"
                 /\ \E m1 \in chat_members :
                      m1.chatId = c.id /\ m1.userId = a /\ m1.userId = b}

\* the rows the join yields; LIMIT 1 returns any one of them
getPrivateChatBetween(a, b) ==
  {c \in chats : /\ c.type = "private"
                 /\ \E m1, m2 \in chat_members :
                      /\ m1.chatId = c.id /\ m2.chatId = c.id
                      /\ m1.userId = a /\ m2.userId = b}

\* all enumerations of a finite set
Orderings(S) ==
  {f \in [1..Cardinality(S) -> S] : \A i, j \in 1..Cardinality(S) : f[i] = f[j] => i = j}

\* one row per membership row of the chat, in any order
getChatMembers(mem, chatId) ==
  {[i \in DOMAIN f |-> LET u == CHOOSE u \in users : u.id = f[i].userId
                       IN [id |-> u.id, username |-> u.username]] :
     f \in Orderings({m \in mem : m.chatId = chatId})}

\* one row per membership row of the user, ORDER BY c.createdAt DESC
getChatsOfUser(cs, mem, userId) ==
  LET chatOf(m) == CHOOSE c \in cs : c.id = m.chatId
  IN {[i \in DOMAIN f |-> chatOf(f[i])] :
        f \in {g \in Orderings({m \in mem : m.userId = userId}) :
                 \A i, j \in DOMAIN g :
                   i < j => chatOf(g[i]).createdAt >= chatOf(g[j]).createdAt}}

\* mutant: the row is not written
insertMessage_dropped(msgs, msg) == msgs

insertMessage(msgs, msg) == msgs \cup {msg}

\* ORDER BY timestamp ASC
getMessagesOfChat(msgs, chatId) ==
  {f \in Orderings({m \in msgs : m.chatId = chatId}) :
     \A i, j \in DOMAIN f : i < j => f[i].timestamp <= f[j].timestamp}

countMessagesOfChat(msgs, chatId) == Cardinality({m \in msgs : m.chatId = chatId})

\* mutant: the subselect is not restricted to the chat
deleteOldestMessages_anyChat(msgs, chatId, n) ==
  {msgs \ {f[i] : i \in {j \in DOMAIN f : j <= n}} :
     f \in {g \in Orderings(msgs) :
              \A i, j \in DOMAIN g : i < j => g[i].timestamp <= g[j].timestamp}}

\* the tables that DELETE ... WHERE id IN (SELECT id ... ORDER BY timestamp ASC LIMIT n) may leave
deleteOldestMessages(msgs, chatId, n) ==
  {msgs \ {f[i] : i \in {j \in DOMAIN f : j <= n}} : f \in getMessagesOfChat(msgs, chatId)}

(* ------------------------------ delivery ------------------------------- *)
\* the connections in a room
InRoom(rms, room) == {k \in Conns : room \in rms[k]}

\* socket.emit(ev, data)
SocketEmit(k, ev, data) == [ev |-> ev, to |-> {k}, data |-> data]
\* io.to(room).emit(ev, data)
RoomEmit(rms, room, ev, data) == [ev |-> ev, to |-> InRoom(rms, room), data |-> data]

\* the emissions sendUpdatedChatListToUser(userId) may make
sendUpdatedChatListToUser(cs, mem, rms, userId) ==
  {RoomEmit(rms, userId, "update_chat_list", list) : list \in getChatsOfUser(cs, mem, userId)}

\* the in-flight invocation: none
NoCall == [pc |-> "idle", text |-> <<>>, openedAt |-> NoId]

\* script.js as the browser has loaded it
pageLoaded ==
  /\ currentChatId = NoId
  /\ sending = FALSE
  /\ call = NoCall
  /\ clientEmitted = <<>>
  /\ inputs = [msg |-> <<>>, file |-> "none"]

Init ==
  /\ users = {}
  /\ chats = {}
  /\ chat_members = {}
  /\ messages = {}
  /\ msgSeq = 0
  /\ clock = 0
  /\ currentUser = [k \in Conns |-> NoUser]
  /\ rooms = [k \in Conns |-> {}]
  /\ emitted = <<>>
  /\ forced = {}
  /\ sentLog = <<>>
  /\ pageLoaded

\* the wall clock advances between two requests
Tick ==
  /\ clock < MaxClock
  /\ clock' = clock + 1
  /\ emitted' = <<>>
  /\ UNCHANGED <<users, chats, chat_members, messages, msgSeq, currentUser, rooms, forced, sentLog>>
  /\ UNCHANGED clientVars

\* requireAuth(eventName)
requireAuth(k) == currentUser[k] # NoUser
NotAuthenticated(k, eventName) ==
  <<SocketEmit(k, "error", [event |-> eventName, message |-> "Not authenticated"])>>

(* -------------------------------- login -------------------------------- *)
Login(k, username, password, fault) ==
  LET name == sanitizeUsername(username)
      found == getUserByName(name)
      fresh == [id |-> UserId(Cardinality(users) + 1), username |-> name,
                password |-> hashSync(String(password))]
      fail(message) ==
        /\ emitted' = <<SocketEmit(k, "login_error", message)>>
        /\ UNCHANGED <<users, currentUser, rooms>>
      bind(user) ==
        /\ currentUser' = [currentUser EXCEPT ![k] = user]
        /\ rooms' = [rooms EXCEPT ![k] = @ \cup {user.id}]
        /\ \E list \in sendUpdatedChatListToUser(chats, chat_members, rooms', user.id) :
             emitted' = <<SocketEmit(k, "login_success",
                                     [userId |-> user.id, username |-> user.username]),
                          list>>
  IN /\ IF name = <<>> \/ ~Truthy(password) THEN fail("Invalid username or password")
        ELSE IF found # {}
          THEN LET user == CHOOSE u \in found : TRUE
               IN IF ~compareSync(String(password), user.password)
                    THEN fail("Wrong password")
                    ELSE /\ bind(user)
                         /\ UNCHANGED users
          ELSE IF fault THEN fail("Registration failed")
               ELSE /\ users' = users \cup {fresh}
                    /\ bind(fresh)
     /\ UNCHANGED <<chats, chat_members, messages, msgSeq, clock, forced, sentLog>>
     /\ UNCHANGED clientVars

\* the connection closes; socket.io drops its rooms, and the next connection
\* in this slot starts with a fresh closure
Disconnect(k) ==
  /\ currentUser[k] # NoUser
  /\ currentUser' = [currentUser EXCEPT ![k] = NoUser]
  /\ rooms' = [rooms EXCEPT ![k] = {}]
  /\ emitted' = <<>>
  /\ UNCHANGED <<users, chats, chat_members, messages, msgSeq, clock, forced, sentLog>>
  /\ UNCHANGED clientVars

(* ----------------------------- search_users ---------------------------- *)
\* SQLite folds ASCII letters for LIKE
Lower(c) == IF c = "A" THEN "a" ELSE IF c = "B" THEN "b" ELSE c

\* s LIKE p: % matches any run of characters, _ any one character
RECURSIVE Like(_, _)
Like(s, p) ==
  IF p = <<>> THEN s = <<>>
  ELSE IF Head(p) = "%" THEN Like(s, Tail(p)) \/ (s # <<>> /\ Like(Tail(s), p))
  ELSE IF Head(p) = "_" THEN s # <<>> /\ Like(Tail(s), Tail(p))
  ELSE s # <<>> /\ Lower(Head(s)) = Lower(Head(p)) /\ Like(Tail(s), Tail(p))

\* mutant: the requester is not excluded
searchRows_withSelf(like, selfId) ==
  LET hits == {u \in users : Like(u.username, like)}
      n == IF Cardinality(hits) < 50 THEN Cardinality(hits) ELSE 50
  IN UNION {{[i \in DOMAIN f |-> [id |-> f[i].id, username |-> f[i].username]] :
               f \in Orderings(S)} : S \in {T \in SUBSET hits : Cardinality(T) = n}}

\* SELECT id, username FROM users WHERE username LIKE ? AND id <> ? LIMIT 50
searchRows(like, selfId) ==
  LET hits == {u \in users : Like(u.username, like) /\ u.id # selfId}
      n == IF Cardinality(hits) < 50 THEN Cardinality(hits) ELSE 50
  IN UNION {{[i \in DOMAIN f |-> [id |-> f[i].id, username |-> f[i].username]] :
               f \in Orderings(S)} : S \in {T \in SUBSET hits : Cardinality(T) = n}}

SearchUsers(k, query) ==
  /\ IF ~requireAuth(k) THEN emitted' = NotAuthenticated(k, "search_users")
     ELSE IF query.t # "string" \/ Len(query.v) > 64 \/ Trim(query.v) = <<>>
       THEN emitted' = <<SocketEmit(k, "search_results", <<>>)>>
     ELSE \E rows \in searchRows(<<"%">> \o Trim(query.v) \o <<"%">>, currentUser[k].id) :
            emitted' = <<SocketEmit(k, "search_results", rows)>>
  /\ UNCHANGED <<users, chats, chat_members, messages, msgSeq, clock, currentUser,
                 rooms, forced, sentLog>>
  /\ UNCHANGED clientVars

(* ------------------------------ create_chat ---------------------------- *)
\* mutant: the requester's id is passed for both users
existingPrivateChat_sameArgument(a, b) == getPrivateChatBetween(a, a)

\* stmt.getPrivateChatBetween.get(a, b) || stmt.getPrivateChatBetween.get(b, a)
existingPrivateChat(a, b) ==
  IF getPrivateChatBetween(a, b) # {} THEN getPrivateChatBetween(a, b)
  ELSE getPrivateChatBetween(b, a)

\* history: the chat that open_chat_force named to a requester for another user
forcedOpen(userId, partnerId, chatId) ==
  IF userId = partnerId THEN {}
  ELSE {[userId |-> userId, partnerId |-> partnerId, chatId |-> chatId]}

CreateChat(k, partnerId, isGroup, groupName, fault) ==
  LET cur == currentUser[k]
      chatId == ChatId(Cardinality(chats) + 1)
      member(n, uid) == [id |-> MemberId(Cardinality(chat_members) + n),
                         chatId |-> chatId, userId |-> uid]
      reply(evs) ==
        /\ emitted' = evs
        /\ UNCHANGED <<chats, chat_members, forced>>
      group ==
        LET name == IF groupName.t = "string" /\ Trim(groupName.v) # <<>>
                      THEN Slice(Trim(groupName.v), 128) ELSE <<"New group">>
        IN /\ Cardinality(chats) < MaxChats
           /\ IF fault
                THEN reply(<<SocketEmit(k, "create_chat_error", "Could not create the group")>>)
                ELSE /\ chats' = chats \cup {[id |-> chatId, type |-> "group",
                                               name |-> name, createdAt |-> clock]}
                     /\ chat_members' = chat_members \cup {member(1, cur.id)}
                     /\ \E list \in sendUpdatedChatListToUser(chats', chat_members', rooms, cur.id) :
                          emitted' = <<list, SocketEmit(k, "open_chat_force",
                                                        [id |-> chatId, name |-> name])>>
                     /\ UNCHANGED forced
      private ==
        LET partner == CHOOSE u \in users : u.id = partnerId
        IN IF existingPrivateChat(cur.id, partnerId) # {}
             THEN \E exist \in existingPrivateChat(cur.id, partnerId) :
                    /\ emitted' = <<SocketEmit(k, "open_chat_force",
                                               [id |-> exist.id, name |-> partner.username])>>
                    /\ forced' = forced \cup forcedOpen(cur.id, partnerId, exist.id)
                    /\ UNCHANGED <<chats, chat_members>>
             ELSE /\ Cardinality(chats) < MaxChats
                  /\ IF fault
                       THEN reply(<<SocketEmit(k, "create_chat_error", "Could not create the chat")>>)
                       ELSE /\ chats' = chats \cup {[id |-> chatId, type |-> "private",
                                                      name |-> partner.username,
                                                      createdAt |-> clock]}
                            /\ chat_members' = chat_members \cup
                                                 {member(1, cur.id), member(2, partnerId)}
                            /\ \E l1 \in sendUpdatedChatListToUser(chats', chat_members', rooms, cur.id),
                                  l2 \in sendUpdatedChatListToUser(chats', chat_members', rooms, partner.id) :
                                 emitted' = <<l1, l2, SocketEmit(k, "open_chat_force",
                                                [id |-> chatId, name |-> partner.username])>>
                            /\ forced' = forced \cup forcedOpen(cur.id, partnerId, chatId)
  IN /\ IF ~requireAuth(k) THEN reply(NotAuthenticated(k, "create_chat"))
        ELSE IF isGroup THEN group
        ELSE IF partnerId = NoId THEN reply(<<>>)
        ELSE IF getUserById(partnerId) = {}
          THEN reply(<<SocketEmit(k, "create_chat_error", "Partner not found")>>)
        ELSE private
     /\ UNCHANGED <<users, messages, msgSeq, clock, currentUser, rooms, sentLog>>
     /\ UNCHANGED clientVars

(* ------------------------------- join_chat ----------------------------- *)
JoinChat(k, chatId) ==
  LET cur == currentUser[k]
  IN /\ IF ~requireAuth(k)
          THEN emitted' = NotAuthenticated(k, "join_chat") /\ UNCHANGED rooms
        ELSE IF chatId = NoId THEN emitted' = <<>> /\ UNCHANGED rooms
        ELSE IF ~isUserMemberOfChat(chat_members, chatId, cur.id)
          THEN /\ emitted' = <<SocketEmit(k, "join_chat_error", "No access to this chat")>>
               /\ UNCHANGED rooms
        ELSE /\ rooms' = [rooms EXCEPT ![k] = @ \cup {chatId}]
             /\ IF getChatById(chatId) = {}
                  THEN emitted' = <<SocketEmit(k, "join_chat_error", "Chat not found")>>
                  ELSE \E chat \in getChatById(chatId),
                          members \in getChatMembers(chat_members, chatId),
                          history \in getMessagesOfChat(messages, chatId) :
                         emitted' = <<SocketEmit(k, "chat_history",
                                        [chat |-> chat, members |-> members,
                                         messages |-> history])>>
     /\ UNCHANGED <<users, chats, chat_members, messages, msgSeq, clock, currentUser,
                    forced, sentLog>>
     /\ UNCHANGED clientVars

(* ------------------------------ send_message --------------------------- *)
\* the insert + trim transaction: the tables it may commit
insertAndTrim(msg) ==
  LET inserted == insertMessage(messages, msg)
      cnt == countMessagesOfChat(inserted, msg.chatId)
  IN IF cnt > MESSAGE_LIMIT_PER_CHAT
       THEN deleteOldestMessages(inserted, msg.chatId,
                                 IF cnt - MESSAGE_LIMIT_PER_CHAT > 0
                                   THEN cnt - MESSAGE_LIMIT_PER_CHAT ELSE 0)
       ELSE {inserted}

SendMessage(k, chatId, text, fileData, fault) ==
  LET cur == currentUser[k]
      msg == [id |-> MessageId(msgSeq + 1), chatId |-> chatId, senderId |-> cur.id,
              senderName |-> cur.username, text |-> sanitizeText(text),
              file |-> IF Truthy(fileData) /\ fileData.t = "string"
                         THEN Str(Slice(fileData.v, 512)) ELSE JsNull,
              timestamp |-> clock]
      reply(evs) ==
        /\ emitted' = evs
        /\ UNCHANGED <<messages, msgSeq, sentLog>>
  IN /\ IF ~requireAuth(k) THEN reply(NotAuthenticated(k, "send_message"))
        ELSE IF chatId = NoId THEN reply(<<>>)
        ELSE IF ~isUserMemberOfChat(chat_members, chatId, cur.id)
          THEN reply(<<SocketEmit(k, "send_message_error", "No access to the chat")>>)
        ELSE /\ msgSeq < MaxMsgs
             /\ IF fault
                  THEN reply(<<SocketEmit(k, "send_message_error", "Could not save the message")>>)
                  ELSE /\ messages' \in insertAndTrim(msg)
                       /\ msgSeq' = msgSeq + 1
                       /\ sentLog' = Append(sentLog, msg)
                       /\ emitted' = <<RoomEmit(rooms, chatId, "new_message", msg)>>
     /\ UNCHANGED <<users, chats, chat_members, clock, currentUser, rooms, forced>>
     /\ UNCHANGED clientVars

(* --------------------------- add_member_request ------------------------ *)
\* mutant: only the first member's list is refreshed
forEachSendUpdatedChatList_firstOnly(cs, mem, rms, members) ==
  IF members = <<>> THEN {<<>>}
  ELSE {<<e>> : e \in sendUpdatedChatListToUser(cs, mem, rms, Head(members).id)}

\* members.forEach(m => sendUpdatedChatListToUser(m.id))
RECURSIVE forEachSendUpdatedChatList(_, _, _, _)
forEachSendUpdatedChatList(cs, mem, rms, members) ==
  IF members = <<>> THEN {<<>>}
  ELSE {<<e>> \o rest :
          e \in sendUpdatedChatListToUser(cs, mem, rms, Head(members).id),
          rest \in forEachSendUpdatedChatList(cs, mem, rms, Tail(members))}

\* mutant: the chat's type is not looked at
notAGroup_anyType(chatId) == getChatById(chatId) = {}

\* !chat || chat.type !== 'group'
notAGroup(chatId) ==
  getChatById(chatId) = {} \/ (CHOOSE c \in chats : c.id = chatId).type # "group"

\* mutant: the check is skipped
already_notChecked(chatId, userId) == FALSE

\* stmt.isUserMemberOfChat.get(chatId, userToAdd.id)
already(chatId, userId) == isUserMemberOfChat(chat_members, chatId, userId)

AddMemberRequest(k, chatId, username, fault) ==
  LET cur == currentUser[k]
      reply(message) ==
        /\ emitted' = <<SocketEmit(k, "add_member_error", message)>>
        /\ UNCHANGED <<chat_members, messages, msgSeq>>
      name == sanitizeUsername(username)
      add ==
        LET chat == CHOOSE c \in chats : c.id = chatId
            userToAdd == CHOOSE u \in users : u.username = name
            systemMsg == [id |-> MessageId(msgSeq + 1), chatId |-> chatId,
                          senderId |-> SystemId, senderName |-> <<"System">>,
                          text |-> cur.username \o <<" added ">> \o userToAdd.username,
                          file |-> JsNull, timestamp |-> clock]
        IN /\ msgSeq < MaxMsgs
           /\ IF fault
                THEN reply("Error while adding the member")
                ELSE /\ chat_members' = chat_members \cup
                                          {[id |-> MemberId(Cardinality(chat_members) + 1),
                                            chatId |-> chatId, userId |-> userToAdd.id]}
                     /\ messages' = insertMessage(messages, systemMsg)
                     /\ msgSeq' = msgSeq + 1
                     /\ \E members \in getChatMembers(chat_members', chatId) :
                        \E lists \in forEachSendUpdatedChatList(chats, chat_members', rooms, members) :
                          emitted' = <<RoomEmit(rooms, chatId, "new_message", systemMsg),
                                       RoomEmit(rooms, userToAdd.id, "member_added",
                                                [username |-> userToAdd.username,
                                                 chatName |-> chat.name,
                                                 targetId |-> userToAdd.id])>> \o lists
  IN /\ IF ~requireAuth(k)
          THEN /\ emitted' = NotAuthenticated(k, "add_member_request")
               /\ UNCHANGED <<chat_members, messages, msgSeq>>
        ELSE IF chatId = NoId \/ ~Truthy(username)
          THEN /\ emitted' = <<>>
               /\ UNCHANGED <<chat_members, messages, msgSeq>>
        ELSE IF notAGroup(chatId) THEN reply("Group not found or access denied")
        ELSE IF ~isUserMemberOfChat(chat_members, chatId, cur.id)
          THEN reply("You are not in the group")
        ELSE IF getUserByName(name) = {}
          THEN reply("User not found")
        ELSE IF already(chatId, (CHOOSE u \in users : u.username = name).id)
          THEN reply("Already in the chat")
        ELSE add
     /\ UNCHANGED <<users, chats, clock, currentUser, rooms, forced, sentLog>>
     /\ UNCHANGED clientVars

(* --------------------------- request_chat_list ------------------------- *)
RequestChatList(k) ==
  /\ IF currentUser[k] = NoUser THEN emitted' = <<>>
     ELSE \E list \in sendUpdatedChatListToUser(chats, chat_members, rooms, currentUser[k].id) :
            emitted' = <<list>>
  /\ UNCHANGED <<users, chats, chat_members, messages, msgSeq, clock, currentUser,
                 rooms, forced, sentLog>>
  /\ UNCHANGED clientVars

(* -------------------------------- inputs ------------------------------- *)
PartnerIds == {UserId(1), UserId(2), NoId}
\* { partnerId, isGroup, groupName } as the client sends it: a private request
\* carries no group name, a group request no partner
CreateChatPayloads ==
  {[partnerId |-> p, isGroup |-> FALSE, groupName |-> JsNull] : p \in PartnerIds}
  \cup {[partnerId |-> NoId, isGroup |-> TRUE, groupName |-> n] : n \in GroupNames}
ChatIds == {ChatId(n) : n \in 1..MaxChats} \cup {NoId}

Next ==
  \/ Tick
  \/ \E k \in Conns, u \in Usernames, p \in Passwords, fault \in BOOLEAN : Login(k, u, p, fault)
  \/ \E k \in Conns : Disconnect(k)
  \/ \E k \in Conns, q \in Queries : SearchUsers(k, q)
  \/ \E k \in Conns, p \in CreateChatPayloads, fault \in BOOLEAN :
       CreateChat(k, p.partnerId, p.isGroup, p.groupName, fault)
  \/ \E k \in Conns, c \in ChatIds : JoinChat(k, c)
  \/ \E k \in Conns, c \in ChatIds, p \in SendPayloads, fault \in BOOLEAN :
       SendMessage(k, c, p.text, p.fileData, fault)
  \/ \E k \in Conns, c \in ChatIds, u \in Usernames, fault \in BOOLEAN :
       AddMemberRequest(k, c, u, fault)
  \/ \E k \in Conns : RequestChatList(k)

\* the whole server, started on an empty database
Spec == Init /\ [][Next]_vars

(***************************************************************************)
(* The server is checked from states that Spec reaches, each with the      *)
(* handlers its claims are about.                                          *)
(***************************************************************************)
Alice == [id |-> UserId(1), username |-> <<"a">>, password |-> hashSync(<<"p">>)]
Bob == [id |-> UserId(2), username |-> <<"b">>, password |-> hashSync(<<"p">>)]

\* sessions and the directory, from the empty database
NextSession ==
  \/ \E k \in Conns, u \in Usernames, p \in Passwords, fault \in BOOLEAN : Login(k, u, p, fault)
  \/ \E k \in Conns : Disconnect(k)
  \/ \E k \in Conns, q \in Queries : SearchUsers(k, q)
  \/ \E k \in Conns : RequestChatList(k)

SpecSession == Init /\ [][NextSession]_vars

\* after "a" registered on connection 1 and "b" on connection 2
InitChats ==
  /\ users = {Alice, Bob}
  /\ chats = {}
  /\ chat_members = {}
  /\ messages = {}
  /\ msgSeq = 0
  /\ clock = 0
  /\ currentUser = [k \in Conns |-> IF k = 1 THEN Alice ELSE Bob]
  /\ rooms = [k \in Conns |-> {currentUser[k].id}]
  /\ emitted = <<SocketEmit(2, "login_success", [userId |-> Bob.id, username |-> Bob.username]),
                 [ev |-> "update_chat_list", to |-> {2}, data |-> <<>>]>>
  /\ forced = {}
  /\ sentLog = <<>>
  /\ pageLoaded

\* chats and memberships
NextChats ==
  \/ \E k \in Conns, p \in CreateChatPayloads, fault \in BOOLEAN :
       CreateChat(k, p.partnerId, p.isGroup, p.groupName, fault)
  \/ \E k \in Conns, c \in ChatIds : JoinChat(k, c)
  \/ \E k \in Conns, c \in ChatIds, u \in Usernames, fault \in BOOLEAN :
       AddMemberRequest(k, c, u, fault)
  \/ \E k \in Conns : RequestChatList(k)

SpecChats == InitChats /\ [][NextChats]_vars

\* after "a" then created the group "T"
GroupT == [id |-> ChatId(1), type |-> "group", name |-> <<"T">>, createdAt |-> 0]

InitMessages ==
  /\ users = {Alice, Bob}
  /\ chats = {GroupT}
  /\ chat_members = {[id |-> MemberId(1), chatId |-> ChatId(1), userId |-> Alice.id]}
  /\ messages = {}
  /\ msgSeq = 0
  /\ clock = 0
  /\ currentUser = [k \in Conns |-> IF k = 1 THEN Alice ELSE Bob]
  /\ rooms = [k \in Conns |-> {currentUser[k].id}]
  /\ emitted = <<[ev |-> "update_chat_list", to |-> {1}, data |-> <<GroupT>>],
                 SocketEmit(1, "open_chat_force", [id |-> ChatId(1), name |-> <<"T">>])>>
  /\ forced = {}
  /\ sentLog = <<>>
  /\ pageLoaded

\* messages and retention
NextMessages ==
  \/ Tick
  \/ \E k \in Conns, c \in ChatIds : JoinChat(k, c)
  \/ \E k \in Conns, c \in ChatIds, p \in SendPayloads, fault \in BOOLEAN :
       SendMessage(k, c, p.text, p.fileData, fault)
  \/ \E k \in Conns, c \in ChatIds, u \in Usernames, fault \in BOOLEAN :
       AddMemberRequest(k, c, u, fault)

SpecMessages == InitMessages /\ [][NextMessages]_vars

\* the same start, with clients that log in again on a bound connection
NextRelogin ==
  \/ \E k \in Conns, u \in Usernames, p \in Passwords, fault \in BOOLEAN : Login(k, u, p, fault)
  \/ \E k \in Conns, c \in ChatIds : JoinChat(k, c)
  \/ \E k \in Conns, c \in ChatIds, p \in SendPayloads, fault \in BOOLEAN :
       SendMessage(k, c, p.text, p.fileData, fault)

SpecRelogin == InitMessages /\ [][NextRelogin]_vars

\* the same start, with the requests that add members to the group
NextMembers ==
  \/ Tick
  \/ \E k \in Conns, c \in ChatIds : JoinChat(k, c)
  \/ \E k \in Conns, c \in ChatIds, u \in Usernames, fault \in BOOLEAN :
       AddMemberRequest(k, c, u, fault)

SpecMembers == InitMessages /\ [][NextMembers]_vars

\* after "a" then added "b" to the group and both connections joined it
AddedBob ==
  [id |-> MessageId(1), chatId |-> GroupT.id, senderId |-> SystemId,
   senderName |-> <<"System">>, text |-> <<"a", " added ", "b">>, file |-> JsNull,
   timestamp |-> 0]

InitOrder ==
  /\ users = {Alice, Bob}
  /\ chats = {GroupT}
  /\ chat_members = {[id |-> MemberId(1), chatId |-> GroupT.id, userId |-> Alice.id],
                     [id |-> MemberId(2), chatId |-> GroupT.id, userId |-> Bob.id]}
  /\ messages = {AddedBob}
  /\ msgSeq = 1
  /\ clock = 0
  /\ currentUser = [k \in Conns |-> IF k = 1 THEN Alice ELSE Bob]
  /\ rooms = [k \in Conns |-> {currentUser[k].id, GroupT.id}]
  /\ emitted = <<SocketEmit(2, "chat_history",
                    [chat |-> GroupT,
                     members |-> <<[id |-> Alice.id, username |-> Alice.username],
                                   [id |-> Bob.id, username |-> Bob.username]>>,
                     messages |-> <<AddedBob>>])>>
  /\ forced = {}
  /\ sentLog = <<>>
  /\ pageLoaded

\* sends from both members while both connections are in the chat's room
NextOrder ==
  \/ Tick
  \/ \E k \in Conns, c \in ChatIds : JoinChat(k, c)
  \/ \E k \in Conns, c \in ChatIds, p \in SendPayloads, fault \in BOOLEAN :
       SendMessage(k, c, p.text, p.fileData, fault)

SpecOrder == InitOrder /\ [][NextOrder]_vars

\* The database file outlives the server process: `new Database(DB_FILE)` opens
\* what an earlier run left and CREATE TABLE IF NOT EXISTS keeps its rows.  Here
\* the earlier run left the users, the group "T", a second group of "a" and one
\* message in it; the server was started again and both users logged in again.
\* The identifiers this run generates are counted from 1.
GroupU == [id |-> ChatId(2), type |-> "group", name |-> <<"New group">>, createdAt |-> 0]

Earlier ==
  [id |-> MessageId(0), chatId |-> GroupU.id, senderId |-> Alice.id,
   senderName |-> Alice.username, text |-> <<"h">>, file |-> JsNull, timestamp |-> 0]

InitRestarted ==
  /\ users = {Alice, Bob}
  /\ chats = {GroupT, GroupU}
  /\ chat_members = {[id |-> MemberId(1), chatId |-> GroupT.id, userId |-> Alice.id],
                     [id |-> MemberId(2), chatId |-> GroupU.id, userId |-> Alice.id]}
  /\ messages = {Earlier}
  /\ msgSeq = 0
  /\ clock = 0
  /\ currentUser = [k \in Conns |-> IF k = 1 THEN Alice ELSE Bob]
  /\ rooms = [k \in Conns |-> {currentUser[k].id}]
  /\ emitted = <<SocketEmit(2, "login_success", [userId |-> Bob.id, username |-> Bob.username]),
                 [ev |-> "update_chat_list", to |-> {2}, data |-> <<>>]>>
  /\ forced = {}
  /\ sentLog = <<>>
  /\ pageLoaded

\* sends to two chats that both hold messages
NextTwoChats ==
  \/ Tick
  \/ \E k \in Conns, c \in ChatIds, p \in SendPayloads, fault \in BOOLEAN :
       SendMessage(k, c, p.text, p.fileData, fault)

SpecTwoChats == InitRestarted /\ [][NextTwoChats]_vars

(***************************************************************************)
(* The page (script.js) of one browser.  sendMessage is an async function: *)
(* it runs to its first await, and each await is a point where the page's  *)
(* other handlers run before it resumes.                                   *)
(***************************************************************************)
\* what the user may have typed and picked as a file
ClientTexts == {<<"h">>, <<" ">>, <<>>}
Files == {"none", "small", "big"}
\* the chats of the user's chat list
OpenableChats == {GroupT.id, GroupU.id}

serverVars == <<users, chats, chat_members, messages, msgSeq, clock, currentUser,
                rooms, emitted, forced, sentLog>>

\* socket.emit(ev, data) of the page
ClientEmit(ev, data) == [ev |-> ev, data |-> data]

openChat(chatId) ==
  /\ currentChatId' = chatId
  /\ clientEmitted' = <<ClientEmit("join_chat", chatId)>>
  /\ UNCHANGED <<sending, call, inputs, serverVars>>

closeChatMobile ==
  /\ currentChatId' = NoId
  /\ clientEmitted' = <<>>
  /\ UNCHANGED <<sending, call, inputs, serverVars>>

\* the user types into the message field or picks a file
userInput(text, file) ==
  /\ inputs' = [msg |-> text, file |-> file]
  /\ inputs' # inputs
  /\ clientEmitted' = <<>>
  /\ UNCHANGED <<currentChatId, sending, call, serverVars>>

\* inputs.msg.value = ""; inputs.file.value = ""
cleared == [msg |-> <<>>, file |-> "none"]

\* an invocation of sendMessage, up to its return or its first await
sendMessage ==
  LET text == Trim(inputs.msg)
      file == inputs.file
  IN /\ IF currentChatId = NoId \/ sending
          THEN clientEmitted' = <<>> /\ UNCHANGED <<sending, call, inputs>>
        ELSE IF (text = <<>> /\ file = "none") \/ file = "big"
          THEN clientEmitted' = <<>> /\ sending' = FALSE /\ UNCHANGED <<call, inputs>>
        ELSE IF file = "small"
          THEN /\ sending' = TRUE
               /\ call' = [pc |-> "fetch", text |-> text, openedAt |-> currentChatId]
               /\ clientEmitted' = <<>>
               /\ UNCHANGED inputs
        ELSE /\ clientEmitted' = <<ClientEmit("send_message",
                                     [chatId |-> currentChatId, text |-> text,
                                      fileData |-> JsNull])>>
             /\ inputs' = cleared
             /\ sending' = FALSE
             /\ UNCHANGED call
     /\ UNCHANGED <<currentChatId, serverVars>>

\* `await fetch("/upload", ...)` settles: resolved, or rejected into the catch
fetchSettled(ok) ==
  /\ call.pc = "fetch"
  /\ IF ok THEN call' = [call EXCEPT !.pc = "json"] /\ UNCHANGED sending
     ELSE call' = [call EXCEPT !.pc = "idle"] /\ sending' = FALSE
  /\ clientEmitted' = <<>>
  /\ UNCHANGED <<currentChatId, inputs, serverVars>>

\* `await r.json()` settles: the function runs on to its end, or into the catch
jsonSettled(ok) ==
  /\ call.pc = "json"
  /\ call' = [call EXCEPT !.pc = "idle"]
  /\ sending' = FALSE
  /\ IF ok
       THEN /\ clientEmitted' = <<ClientEmit("send_message",
                                    [chatId |-> currentChatId, text |-> call.text,
                                     fileData |-> JsObject])>>
            /\ inputs' = cleared
       ELSE clientEmitted' = <<>> /\ UNCHANGED inputs
  /\ UNCHANGED <<currentChatId, serverVars>>

NextClient ==
  \/ \E c \in OpenableChats : openChat(c)
  \/ closeChatMobile
  \/ \E t \in ClientTexts, f \in Files : userInput(t, f)
  \/ sendMessage
  \/ \E ok \in BOOLEAN : fetchSettled(ok)
  \/ \E ok \in BOOLEAN : jsonSettled(ok)

\* the page of a user whose chat list shows the two groups
SpecClient == InitRestarted /\ [][NextClient]_vars

(***************************************************************************)
(* Claims                                                                  *)
(***************************************************************************)
\* the users that have a membership row for the chat
memberUsers(chatId) == {m.userId : m \in {r \in chat_members : r.chatId = chatId}}
\* the membership rows of the chat
memberRows(chatId) == {r \in chat_members : r.chatId = chatId}
\* the rooms that are live channels of chats
liveChannels(k) == {r \in rooms[k] : r[1] = "chat"}

\* C1: for every unordered pair of users, at most one private chat has exactly
\* those two users as its members, whoever of the two asked for it.
C1_OnePrivateChatPerPair ==
  \A c1, c2 \in chats :
    (c1.type = "private" /\ c2.type = "private"
       /\ memberUsers(c1.id) = memberUsers(c2.id)) => c1 = c2

\* a private chat of two users exists and the one who did not create it has just
\* asked for it and was given the existing chat
C1_Witness ==
  \E k \in Conns, c \in chats :
    /\ c.type = "private"
    /\ Cardinality(memberUsers(c.id)) = 2
    /\ currentUser[k].id \in memberUsers(c.id)
    /\ c.name = currentUser[k].username
    /\ Len(emitted) = 1
    /\ emitted[1].ev = "open_chat_force" /\ emitted[1].to = {k}
    /\ emitted[1].data.id = c.id

\* C2: when two users each ask for the private chat with the other, the
\* open_chat_force events they get name the same chat.
C2_BothGetTheSameChat ==
  \A f, g \in forced :
    {f.userId, f.partnerId} = {g.userId, g.partnerId} => f.chatId = g.chatId

\* both users of a pair have been answered
C2_Witness ==
  \E f, g \in forced : f.userId = g.partnerId /\ f.partnerId = g.userId

\* C8: a connection is joined to at most one chat's live channel.
C8_AtMostOneLiveChannel ==
  \A k \in Conns : Cardinality(liveChannels(k)) <= 1

\* C10: a private chat has exactly two membership rows from its creation on, no
\* request changes them, and add_member_request on a private chat inserts no
\* membership and no system message and only reports an error to the requester.
C10_PrivateChatHasTwoMembers ==
  /\ [](\A c \in chats : c.type = "private" => Cardinality(memberRows(c.id)) = 2)
  /\ [][\A c \in chats : c.type = "private" => memberRows(c.id)' = memberRows(c.id)]_vars
  /\ [][\A k \in Conns, c \in chats, u \in Usernames, fault \in BOOLEAN :
          (c.type = "private" /\ AddMemberRequest(k, c.id, u, fault))
            => /\ chat_members' = chat_members
               /\ messages' = messages
               /\ \A i \in DOMAIN emitted' :
                    emitted'[i].ev = "add_member_error" /\ emitted'[i].to = {k}]_vars

\* every chat is private and an add_member_request has just been refused for
\* not naming a group
C10_Witness ==
  /\ Cardinality(chats) = MaxChats
  /\ \A c \in chats : c.type = "private"
  /\ \E k \in Conns :
       emitted = <<SocketEmit(k, "add_member_error", "Group not found or access denied")>>

\* the messages send_message persisted for the chat, oldest first
sendsTo(chatId) ==
  LET toChat(m) == m.chatId = chatId IN SelectSeq(sentLog, toChat)

C4_AtMostCapMessages ==
  \A c \in chats : Cardinality({m \in messages : m.chatId = c.id}) <= MESSAGE_LIMIT_PER_CHAT

\* C5: a join_chat, send_message or add_member_request for a chat from an
\* authenticated user without a membership row for it changes no table, joins
\* the connection to nothing, and emits at most an error to the requester.
C5_NonMemberIsDenied ==
  [][\A k \in Conns, c \in ChatIds \ {NoId} :
       ( /\ currentUser[k] # NoUser
         /\ ~\E m \in chat_members : m.chatId = c /\ m.userId = currentUser[k].id
         /\ \/ JoinChat(k, c)
            \/ \E p \in SendPayloads, fault \in BOOLEAN :
                 SendMessage(k, c, p.text, p.fileData, fault)
            \/ \E u \in Usernames, fault \in BOOLEAN : AddMemberRequest(k, c, u, fault) )
       => /\ UNCHANGED tables
          /\ rooms' = rooms
          /\ \A i \in DOMAIN emitted' :
               /\ emitted'[i].to = {k}
               /\ emitted'[i].ev \in {"join_chat_error", "send_message_error",
                                      "add_member_error"}]_vars

\* "b", who has no membership row for the group, has just been refused a send
C5_Witness ==
  \E k \in Conns :
    /\ currentUser[k] # NoUser
    /\ \E c \in chats : currentUser[k].id \notin memberUsers(c.id)
    /\ emitted = <<SocketEmit(k, "send_message_error", "No access to the chat")>>

\* the chat an event is about
eventChat(e) ==
  IF e.ev = "new_message" THEN e.data.chatId
  ELSE IF e.ev = "chat_history" THEN e.data.chat.id ELSE NoId

\* C6: a new_message or chat_history for a chat reaches only connections whose
\* bound user has a membership row for that chat.
C6_OnlyMembersReceive ==
  \A i \in DOMAIN emitted :
    emitted[i].ev \in {"new_message", "chat_history"} =>
      \A k \in emitted[i].to : currentUser[k].id \in memberUsers(eventChat(emitted[i]))

\* C7: once a connection is bound to a user, no request on it changes the
\* bound identity for as long as the connection lives.
C7_BindingIsTerminal ==
  [][\A k \in Conns :
       (currentUser[k] # NoUser /\ ~Disconnect(k)) => currentUser'[k].id = currentUser[k].id]_vars

\* C9: a send_message with no text left after trimming and no attachment
\* reference persists no message row and broadcasts no new_message.
C9_EmptySendIsRejected ==
  [][\A k \in Conns, c \in ChatIds, p \in SendPayloads, fault \in BOOLEAN :
       ( /\ sanitizeText(p.text) = <<>>
         /\ ~Truthy(p.fileData)
         /\ SendMessage(k, c, p.text, p.fileData, fault) )
       => /\ messages' = messages
          /\ \A i \in DOMAIN emitted' : emitted'[i].ev # "new_message"]_vars

\* C11: chat_members holds at most one row per (chatId, userId) pair.
C11_OneRowPerMembership ==
  \A m1, m2 \in chat_members :
    (m1.chatId = m2.chatId /\ m1.userId = m2.userId) => m1 = m2

\* C12: an add_member_request naming a user who already is a member of the
\* group emits one add_member_error, to the requester alone, and changes neither
\* the memberships nor the messages.
C12_AlreadyMemberIsRefused ==
  [][\A k \in Conns, c \in chats, u \in Usernames, fault \in BOOLEAN :
       ( /\ c.type = "group"
         /\ currentUser[k] # NoUser
         /\ currentUser[k].id \in memberUsers(c.id)
         /\ \E x \in users : x.username = sanitizeUsername(u) /\ x.id \in memberUsers(c.id)
         /\ AddMemberRequest(k, c.id, u, fault) )
       => /\ Len(emitted') = 1
          /\ emitted'[1].ev = "add_member_error"
          /\ emitted'[1].to = {k}
          /\ chat_members' = chat_members
          /\ messages' = messages]_vars

\* "b" was added to the group and has just been named again
C12_Witness ==
  /\ Bob.id \in memberUsers(GroupT.id)
  /\ Cardinality(memberRows(GroupT.id)) = 2
  /\ \E k \in Conns : emitted = <<SocketEmit(k, "add_member_error", "Already in the chat")>>

\* C13: an add_member_request step inserts a membership row exactly when it
\* appends the system message: either one row for the chat and one system
\* message of the chat, or nothing; when the transaction fails no table changes
\* and nothing is emitted to anyone but the requester.
C13_AddMemberIsAllOrNothing ==
  [][\A k \in Conns, c \in ChatIds, u \in Usernames, fault \in BOOLEAN :
       AddMemberRequest(k, c, u, fault)
       => LET rows == chat_members' \ chat_members
              msgs == messages' \ messages
          IN /\ chat_members \subseteq chat_members'
             /\ messages \subseteq messages'
             /\ (rows # {}) <=> (msgs # {})
             /\ rows # {} =>
                  /\ Cardinality(rows) = 1
                  /\ Cardinality(msgs) = 1
                  /\ \A r \in rows : r.chatId = c
                  /\ \A m \in msgs : m.chatId = c /\ m.senderId = SystemId
             /\ fault =>
                  /\ rows = {}
                  /\ \A i \in DOMAIN emitted' : emitted'[i].to = {k}]_vars

\* "b" has just been added to the group: the row and the system message are there
C13_Witness ==
  /\ Bob.id \in memberUsers(GroupT.id)
  /\ \E m \in messages : m.chatId = GroupT.id /\ m.senderId = SystemId
  /\ emitted # <<>>
  /\ emitted[1].ev = "new_message"
  /\ emitted[1].data.senderId = SystemId

\* the events that report a failure
failureEvents ==
  {"error", "login_error", "create_chat_error", "join_chat_error",
   "send_message_error", "add_member_error"}

\* the request emitted a failure event, to the requester and to nobody else
reportedTo(k, evs) ==
  /\ evs # <<>>
  /\ \A i \in DOMAIN evs : evs[i].ev \in failureEvents /\ evs[i].to = {k}

\* C14: a create_chat, join_chat or add_member_request that does not do what
\* was asked (no chat opened, no history returned, no member added) emits a
\* named failure event to the requesting connection and to no other.
C14_FailureIsReported ==
  [][\A k \in Conns :
       /\ (\E p \in CreateChatPayloads, fault \in BOOLEAN :
             CreateChat(k, p.partnerId, p.isGroup, p.groupName, fault))
            => \/ \E i \in DOMAIN emitted' : emitted'[i].ev = "open_chat_force"
               \/ reportedTo(k, emitted')
       /\ (\E c \in ChatIds : JoinChat(k, c))
            => \/ \E i \in DOMAIN emitted' : emitted'[i].ev = "chat_history"
               \/ reportedTo(k, emitted')
       /\ (\E c \in ChatIds, u \in Usernames, fault \in BOOLEAN :
             AddMemberRequest(k, c, u, fault))
            => \/ chat_members' # chat_members
               \/ reportedTo(k, emitted')]_vars

\* C15: a private create_chat that answers with open_chat_force, for a new chat
\* or for the existing one, also emits update_chat_list to the personal room of
\* the requester and to the personal room of the partner.
C15_PrivateCreateNotifiesBoth ==
  [][\A k \in Conns, p \in PartnerIds \ {NoId}, fault \in BOOLEAN :
       ( /\ CreateChat(k, p, FALSE, JsNull, fault)
         /\ \E i \in DOMAIN emitted' : emitted'[i].ev = "open_chat_force" )
       => \A uid \in {currentUser[k].id, p} :
            \E i \in DOMAIN emitted' :
              /\ emitted'[i].ev = "update_chat_list"
              /\ emitted'[i].to = InRoom(rooms, uid)]_vars

\* C16: when a user creates a private chat with another user, each of the two
\* gets an update_chat_list, and in it exactly one entry for the new chat, named
\* with the username of the other of the two.
C16_EntryNamedAfterTheOther ==
  [][\A k \in Conns, p \in PartnerIds \ {NoId}, fault \in BOOLEAN :
       ( /\ CreateChat(k, p, FALSE, JsNull, fault)
         /\ chats' # chats
         /\ p # currentUser[k].id )
       => LET new == CHOOSE c \in chats' \ chats : TRUE
              pair == {currentUser[k].id, p}
          IN /\ \A uid \in pair :
                  \E i \in DOMAIN emitted' :
                    /\ emitted'[i].ev = "update_chat_list"
                    /\ emitted'[i].to = InRoom(rooms, uid)
             /\ \A i \in DOMAIN emitted' :
                  emitted'[i].ev = "update_chat_list" =>
                    \A j \in emitted'[i].to :
                      LET list == emitted'[i].data
                          other == CHOOSE u \in users : u.id \in pair \ {currentUser[j].id}
                          entries == {n \in DOMAIN list : list[n].id = new.id}
                      IN /\ Cardinality(entries) = 1
                         /\ \A n \in entries : list[n].name = other.username]_vars

\* C17: the search_results a logged-in requester gets from search_users go to
\* the requester alone, never list the requester's own user, and are empty when
\* nothing is left of the query after trimming.
C17_SearchExcludesRequester ==
  [][\A k \in Conns, q \in Queries :
       (currentUser[k] # NoUser /\ SearchUsers(k, q))
       => /\ Len(emitted') = 1
          /\ emitted'[1].ev = "search_results"
          /\ emitted'[1].to = {k}
          /\ \A n \in DOMAIN emitted'[1].data :
               emitted'[1].data[n].id # currentUser[k].id
          /\ (q.t # "string" \/ Trim(q.v) = <<>>) => emitted'[1].data = <<>>]_vars

\* two users are registered and a search has just returned the other one
C17_Witness ==
  /\ Cardinality(users) = 2
  /\ \E k \in Conns :
       /\ currentUser[k] # NoUser
       /\ Len(emitted) = 1
       /\ emitted[1].ev = "search_results"
       /\ emitted[1].to = {k}
       /\ Len(emitted[1].data) = 1
       /\ emitted[1].data[1].id # currentUser[k].id

\* the login answered login_success
loggedIn(evs) == evs # <<>> /\ evs[1].ev = "login_success"

\* C18 as stated: a login binds the connection and reports success if and only
\* if the username is unseen (then exactly one user row with that username is
\* created) or the password matches the stored one; on a mismatch the requester
\* gets login_error, no user row changes and the bound identity stays.
C18_LoginIffUnseenOrMatch ==
  [][\A k \in Conns, u \in Usernames, p \in Passwords, fault \in BOOLEAN :
       Login(k, u, p, fault)
       => LET name == sanitizeUsername(u)
              found == {x \in users : x.username = name}
              unseen == found = {}
              matches == \E x \in found : x.password = hashSync(String(p))
          IN /\ loggedIn(emitted') <=> (unseen \/ matches)
             /\ loggedIn(emitted') => currentUser'[k].username = name
             /\ (loggedIn(emitted') /\ unseen) =>
                  /\ users \subseteq users'
                  /\ Cardinality(users' \ users) = 1
                  /\ \A x \in users' \ users : x.username = name
             /\ ~unseen => users' = users
             /\ (~unseen /\ ~matches) =>
                  /\ emitted' = <<SocketEmit(k, "login_error", "Wrong password")>>
                  /\ currentUser'[k] = currentUser[k]]_vars

\* C18, amended: for a login whose username is not blank after trimming and
\* whose password is not empty, the connection is bound and login_success is
\* reported if and only if the username is unseen and the insert of the new
\* row succeeds (then exactly one row with that username is created) or the
\* password matches the stored one; every other login emits login_error to
\* the requester, changes no user row and leaves the bound identity as it was.
C18_ValidLoginIffUnseenOrMatch ==
  [][\A k \in Conns, u \in Usernames, p \in Passwords, fault \in BOOLEAN :
       Login(k, u, p, fault)
       => LET name == sanitizeUsername(u)
              valid == name # <<>> /\ Truthy(p)
              found == {x \in users : x.username = name}
              unseen == found = {}
              matches == \E x \in found : x.password = hashSync(String(p))
          IN /\ loggedIn(emitted') <=> (valid /\ ((unseen /\ ~fault) \/ matches))
             /\ loggedIn(emitted') => currentUser'[k].username = name
             /\ (loggedIn(emitted') /\ unseen) =>
                  /\ users \subseteq users'
                  /\ Cardinality(users' \ users) = 1
                  /\ \A x \in users' \ users : x.username = name
             /\ (~loggedIn(emitted') \/ ~unseen) => users' = users
             /\ ~loggedIn(emitted') =>
                  /\ Len(emitted') = 1
                  /\ emitted'[1].ev = "login_error"
                  /\ emitted'[1].to = {k}
                  /\ currentUser'[k] = currentUser[k]
             /\ (valid /\ ~unseen /\ ~matches) =>
                  emitted' = <<SocketEmit(k, "login_error", "Wrong password")>>]_vars

\* a bound connection has just been refused a login for a wrong password
C18_Witness ==
  \E k \in Conns :
    /\ currentUser[k] # NoUser
    /\ emitted = <<SocketEmit(k, "login_error", "Wrong password")>>

\* the n-th row inserted into messages has id MessageId(n)
insertedBefore(m1, m2) == m1.id[2] < m2.id[2]

sentSet == {sentLog[n] : n \in DOMAIN sentLog}

C21_AddIsAnnouncedAfterCommit ==
  [][\A k \in Conns, c \in ChatIds, u \in Usernames, fault \in BOOLEAN :
       (AddMemberRequest(k, c, u, fault) /\ chat_members' # chat_members)
       => LET T == CHOOSE x \in users : x.username = sanitizeUsername(u)
              members == {r.userId : r \in {m \in chat_members' : m.chatId = c}}
              chatsOf(uid) == {r.chatId : r \in {m \in chat_members' : m.userId = uid}}
          IN /\ T.id \in members
             /\ Len(emitted') >= 2
             /\ emitted'[1].ev = "new_message"
             /\ emitted'[1].to = InRoom(rooms, c)
             /\ emitted'[1].data \in messages'
             /\ emitted'[1].data.senderId = SystemId
             /\ emitted'[2].ev = "member_added"
             /\ emitted'[2].to = InRoom(rooms, T.id)
             /\ emitted'[2].data.targetId = T.id
             /\ \A uid \in members :
                  \E i \in DOMAIN emitted' :
                    /\ i > 2
                    /\ emitted'[i].ev = "update_chat_list"
                    /\ emitted'[i].to = InRoom(rooms, uid)
                    /\ {emitted'[i].data[n].id : n \in DOMAIN emitted'[i].data} = chatsOf(uid)
                    /\ c \in chatsOf(uid)]_vars

\* "b" has just been added: the notice and both chat lists went out
C21_Witness ==
  /\ Len(emitted) = 4
  /\ emitted[2].ev = "member_added"
  /\ emitted[2].data.targetId = Bob.id
  /\ emitted[2].to = {2}
  /\ \E i \in {3, 4} :
       /\ emitted[i].ev = "update_chat_list"
       /\ emitted[i].to = {2}
       /\ emitted[i].data = <<GroupT>>

\* C22: a send_message to a chat, with its trim, leaves the messages of every
\* other chat as they were and changes no row of users, chats or chat_members.
C22_SendTouchesOnlyItsChat ==
  [][\A k \in Conns, c \in ChatIds, p \in SendPayloads, fault \in BOOLEAN :
       SendMessage(k, c, p.text, p.fileData, fault)
       => /\ {m \in messages' : m.chatId # c} = {m \in messages : m.chatId # c}
          /\ users' = users
          /\ chats' = chats
          /\ chat_members' = chat_members]_vars

\* a send to "T" has just trimmed "T" while the other group holds its message
C22_Witness ==
  /\ msgSeq = MESSAGE_LIMIT_PER_CHAT + 1
  /\ Cardinality({m \in messages : m.chatId = GroupT.id}) = MESSAGE_LIMIT_PER_CHAT
  /\ Earlier \in messages
  /\ Len(emitted) = 1
  /\ emitted[1].ev = "new_message"
  /\ emitted[1].data.chatId = GroupT.id

\* C23: the send_message the page emits when the upload of a sendMessage has
\* completed names the chat that was open when that sendMessage was invoked;
\* a sendMessage invoked while another is suspended emits nothing and changes
\* nothing; and whenever no sendMessage is suspended the flag sending is false.
C23_UploadTargetsTheChatOfTheCall ==
  [][/\ \A i \in DOMAIN clientEmitted' :
          ( /\ clientEmitted'[i].ev = "send_message"
            /\ clientEmitted'[i].data.fileData # JsNull )
          => clientEmitted'[i].data.chatId = call.openedAt
     /\ (call.pc # "idle" /\ sendMessage)
          => /\ clientEmitted' = <<>>
             /\ UNCHANGED <<currentChatId, sending, call, inputs>>
     /\ call'.pc = "idle" => ~sending']_vars

====
